---- MODULE Spec2Model ----
(***************************************************************************)
(* Catalog ingestion and position-query pipeline of live-satelites-api:    *)
(*   live_sat_engine.py       LiveSatelliteEngine (fetch, load, evaluate)  *)
(*   generate_all_geojson.py  generate_group_files, classify_orbit         *)
(*   generate_geojson.py      build_geojson                                *)
(*                                                                         *)
(* Floating point values are abstracted to "fin" (a finite number), "nan"  *)
(* and "inf"; a raw feed record is abstracted to the set of keys it        *)
(* carries, the set of keys whose value is not a number, its identifier    *)
(* and its name.  Strings that are matched against each other (display     *)
(* names, keywords) are sequences of one-character strings.                *)
(***************************************************************************)
EXTENDS Integers, Sequences, FiniteSets, TLC

(***************************************************************************)
(* State.                                                                  *)
(***************************************************************************)
VARIABLES
    prog,        \* the entry point that runs: "group_files", "geojson", "lib"
    pc,          \* where the run stands
    builds,      \* how many catalog builds have been started
    mode,        \* "init": the build runs from __init__; "reload": from a
                 \* direct call of load_all_groups
    gi,          \* index of the group being fetched or loaded
    reqs,        \* fetch_group: requests issued so far in this call
    okseen,      \* fetch_group: acceptable responses received in this call
    src,         \* fetch_group: the request whose payload was returned
    data,        \* length of the payload fetch_group returned
    ri,          \* index of the next record of data
    entry,       \* the record being handled
    sats,        \* self.sats
    order,       \* insertion order of self.sats
    want,        \* identifiers of the valid records read during this build
    rewritten,   \* identifiers stored more than once during this build
    prev,        \* the catalog as it was when this build started
    fetchres,    \* the results of the fetch_group calls of this build, in
                 \* order: "failed" or "ok"
    qi,          \* index into order of the satellite evaluated next
    sgp,         \* the propagator's last answer
    pos,         \* the last result of compute_position
    group_data,  \* generate_group_files: label -> list of features
    features,    \* build_geojson: list of features
    files,       \* files written: path -> list of features
    raised,      \* the exception that ended the run
    calt,        \* classify_orbit: argument
    cres         \* classify_orbit: result

(***************************************************************************)
(* Bounds of the model.  The two scripts build one catalog; a program that *)
(* rebuilds its catalog is explored on a smaller feed.                     *)
(***************************************************************************)
NumGroups == 2      \* scripts: how many of the configured groups are loaded
MaxRecs   == 2      \* scripts: longest payload a request returns
MaxId     == 2      \* scripts: catalog identifiers are 1..MaxId
LibGroups == 1      \* library user: groups loaded
LibRecs   == 1      \* library user: longest payload
LibId     == 1      \* library user: catalog identifiers are 1..LibId
MaxBuilds == 2      \* library user: how often the catalog is (re)built

Groups  == IF prog = "lib" THEN LibGroups ELSE NumGroups
PayLens == IF prog = "lib" THEN 0 .. LibRecs ELSE 0 .. MaxRecs
Ids     == IF prog = "lib" THEN 1 .. LibId ELSE 1 .. MaxId

(***************************************************************************)
(* live_sat_engine.py: configuration.                                      *)
(***************************************************************************)
CELESTRAK_GROUPS ==
    << "last-30-days", "stations", "active", "weather", "resource", "dmc",
       "intelsat", "eutelsat", "starlink", "gnss", "gps-ops", "glo-ops",
       "galileo", "beidou", "nnss", "musson", "cosmos-1408-debris",
       "fengyun-1c-debris", "iridium-33-debris", "cosmos-2251-debris" >>

Retries == 5

None == "None"      \* Python's None where a number is expected
NoPos == << >>      \* Python's None where compute_position returns a dict
NoException == << >>
KeyError(k) == << "KeyError", k >>

UnknownId == MaxId + LibId + 1   \* an identifier no feed record carries

(***************************************************************************)
(* Raw feed records.                                                       *)
(***************************************************************************)
AngleFields == { "INCLINATION", "RA_OF_ASC_NODE", "ARG_OF_PERICENTER",
                 "MEAN_ANOMALY" }
InitFields  == { "EPOCH", "BSTAR", "MEAN_MOTION_DOT", "MEAN_MOTION_DDOT",
                 "ECCENTRICITY", "MEAN_MOTION" }
NumericFields  == { "NORAD_CAT_ID" } \cup AngleFields \cup InitFields
RequiredFields == NumericFields \cup { "OBJECT_NAME" }

\* display names: "StG", "X"
Names == { << "S", "t", "G" >>, << "X" >> }

\* keys: the keys the JSON object carries; nonnum: the keys whose value is
\* not a number; rejected: the propagator refuses the (numeric) elements.
Good(id, name) ==
    [ keys |-> RequiredFields, nonnum |-> {}, rejected |-> FALSE,
      norad |-> id, name |-> name ]
Sample == Good(1, << "S", "t", "G" >>)
Missing(f)    == [ Sample EXCEPT !.keys = RequiredFields \ { f } ]
NonNumeric(f) == [ Sample EXCEPT !.nonnum = { f } ]
Rejected      == [ Sample EXCEPT !.rejected = TRUE ]

RawRecords ==
    { Good(i, n) : i \in Ids, n \in Names }
      \cup { Missing(f) : f \in RequiredFields }
      \cup { NonNumeric(f) : f \in NumericFields }
      \cup { Rejected }

(***************************************************************************)
(* fetch_group: one HTTP response, and the test that ends the retry loop.  *)
(***************************************************************************)
Responses ==
    { [ exc |-> TRUE,  status |-> 0,   json |-> "invalid", len |-> 0 ],
      [ exc |-> FALSE, status |-> 403, json |-> "list",    len |-> 1 ],
      [ exc |-> FALSE, status |-> 200, json |-> "invalid", len |-> 0 ],
      [ exc |-> FALSE, status |-> 200, json |-> "object",  len |-> 0 ] }
      \cup { [ exc |-> FALSE, status |-> 200, json |-> "list", len |-> n ] :
               n \in PayLens }

AttemptOk_empty(resp) ==
    ~resp.exc /\ resp.status = 200 /\ resp.json = "list"

AttemptOk(resp) ==
    ~resp.exc /\ resp.status = 200 /\ resp.json = "list" /\ resp.len > 0

(***************************************************************************)
(* load_all_groups: the handling of one record.                            *)
(***************************************************************************)
HasKey(rec, f) == f \in rec.keys
IsNumber(rec, f) == f \notin rec.nonnum

\* lines 87-94: math.radians of the four angles inside a bare except
AnglesOk(rec) ==
    \A f \in AngleFields : HasKey(rec, f) /\ IsNumber(rec, f)

\* lines 97-116: the arguments of sgp4init are read and converted inside
\* try/except Exception
Sgp4InitOk(rec) ==
    /\ IsNumber(rec, "NORAD_CAT_ID")
    /\ \A f \in InitFields : HasKey(rec, f) /\ IsNumber(rec, f)
    /\ ~rec.rejected

RecordOutcome(rec) ==
    IF ~HasKey(rec, "NORAD_CAT_ID") THEN "raise_norad"        \* line 85
    ELSE IF ~AnglesOk(rec) THEN "skip"                        \* line 94
    ELSE IF ~Sgp4InitOk(rec) THEN "skip"                      \* line 116
    ELSE IF ~HasKey(rec, "OBJECT_NAME") THEN "raise_name"     \* line 120
    ELSE "store"

CatalogEntry(rec, group) ==
    [ name |-> rec.name, group |-> group, satrec |-> rec.norad,
      meta |-> rec ]

Put(s, k, v) == [ i \in DOMAIN s \cup { k } |-> IF i = k THEN v ELSE s[i] ]

StoreEntry_first(s, norad, e) == IF norad \in DOMAIN s THEN s ELSE Put(s, norad, e)

\* line 119: self.sats[norad] = {...}
StoreEntry(s, norad, e) == Put(s, norad, e)

\* insertion order of the dict: an existing key keeps its place
StoreOrder(o, s, norad) == IF norad \in DOMAIN s THEN o ELSE Append(o, norad)

ContinueTarget_break(g) == Groups + 1

\* line 82: continue
ContinueTarget(g) == g + 1

CatalogAtInit_keep(old) == old

\* line 47: self.sats = {}
CatalogAtInit(old) == << >>


(***************************************************************************)
(* compute_position: the propagator's answer and the conversion of its     *)
(* Cartesian vector to longitude, latitude and altitude.                   *)
(***************************************************************************)
\* (e, r) of satrec.sgp4: an error code and a vector whose components are a
\* finite number, NaN or an infinity.  The propagator is an external
\* library: every sample is possible for every satellite and instant.
PropOutputs ==
    { [ e |-> 0, r |-> << "fin", "fin", "fin" >> ],
      [ e |-> 0, r |-> << "nan", "fin", "fin" >> ],
      [ e |-> 0, r |-> << "fin", "fin", "nan" >> ],
      [ e |-> 0, r |-> << "inf", "fin", "fin" >> ],
      [ e |-> 1, r |-> << "nan", "nan", "nan" >> ],
      [ e |-> 6, r |-> << "fin", "fin", "fin" >> ] }
NoCall == [ e |-> -1, r |-> << "nan", "nan", "nan" >> ]

Atan2(a, b) == IF a = "nan" \/ b = "nan" THEN "nan" ELSE "fin"
Times(a, b) == IF a = "nan" \/ b = "nan" THEN "nan"
               ELSE IF a = "inf" \/ b = "inf" THEN "inf" ELSE "fin"
Plus(a, b)  == IF a = "nan" \/ b = "nan" THEN "nan"
               ELSE IF a = "inf" \/ b = "inf" THEN "inf" ELSE "fin"
Sqrt(a)     == a
Degrees(a)  == a

Lon(r) == Degrees(Atan2(r[2], r[1]))
Lat(r) == Degrees(Atan2(r[3], Sqrt(Plus(Times(r[1], r[1]), Times(r[2], r[2])))))
Alt(r) == Plus(Sqrt(Plus(Plus(Times(r[1], r[1]), Times(r[2], r[2])),
                         Times(r[3], r[3]))), "fin")

StatusOk_any(e) == TRUE

\* line 147: if e != 0: return None
StatusOk(e) == e = 0

PosDict(s, norad, r) ==
    ("norad_id" :> norad) @@ ("name" :> s[norad].name)
      @@ ("group" :> s[norad].group) @@ ("lon" :> Lon(r))
      @@ ("lat" :> Lat(r)) @@ ("alt_km" :> Alt(r))
      @@ ("timestamp" :> "t") @@ ("meta" :> s[norad].meta)

compute_position(s, norad, out) ==
    IF norad \notin DOMAIN s THEN NoPos
    ELSE IF ~StatusOk(out.e) THEN NoPos
    ELSE PosDict(s, norad, out.r)

(***************************************************************************)
(* generate_all_geojson.py                                                 *)
(***************************************************************************)
\* groups.json: output group label -> keyword
GROUP_MAP == ("starlink" :> << "s", "T" >>) @@ ("gps" :> << "G" >>)

safe_num(x) ==
    IF x = None THEN None
    ELSE IF x = "nan" \/ x = "inf" THEN None
    ELSE x

LowerChar(c) ==
    CASE c = "S" -> "s" [] c = "T" -> "t" [] c = "G" -> "g" [] c = "X" -> "x"
      [] OTHER -> c
lower(s) == [ i \in 1 .. Len(s) |-> LowerChar(s[i]) ]

\* Python's  sub in s  on strings
Contains(sub, s) ==
    \E i \in 0 .. (Len(s) - Len(sub)) : SubSeq(s, i + 1, i + Len(sub)) = sub

\* line 79: if match_string.lower() in name_l
Matches(g, name) == Contains(lower(GROUP_MAP[g]), lower(name))

\* the keys of pos that building a feature reads, in evaluation order
GroupKeysRead == << "time" >>
GeoKeysRead   == << "NORAD", "name", "alt_km", "time", "lon", "lat" >>

FirstMissing(keys, d) ==
    LET miss == { i \in 1 .. Len(keys) : keys[i] \notin DOMAIN d }
    IN  IF miss = {} THEN None
        ELSE keys[CHOOSE i \in miss : \A j \in miss : i <= j]

\* lines 84-130, reached only when every key read is present
GroupFeature(norad, sat, p) ==
    [ norad_id |-> norad, name |-> sat.name,
      lon |-> safe_num(p["lon"]), lat |-> safe_num(p["lat"]),
      alt_km |-> safe_num(p["alt_km"]), timestamp |-> p["time"] ]

\* generate_geojson.py lines 19-31, reached only when every key is present
GeoFeature(p) ==
    [ norad_id |-> p["NORAD"], name |-> p["name"], lon |-> p["lon"],
      lat |-> p["lat"], alt_km |-> p["alt_km"], timestamp |-> p["time"] ]

OUTPUT == "live_satellites.geojson"

\* an altitude, or None
NoAlt == [ some |-> FALSE, km |-> 0 ]
Km(a) == [ some |-> TRUE, km |-> a ]

classify_orbit(alt) ==
    IF ~alt.some THEN "Unknown"
    ELSE IF alt.km < 2000 THEN "LEO"
    ELSE IF alt.km < 20000 THEN "MEO"
    ELSE IF alt.km < 40000 THEN "GEO"
    ELSE "HEO"

vars == << prog, pc, builds, mode, gi, reqs, okseen, src, data, ri, entry,
           sats, order, want, rewritten, prev, fetchres, qi, sgp, pos,
           group_data, features, files, raised, calt, cres >>

loadvars  == << gi, reqs, okseen, src, data, ri, entry, sats, order, want,
                rewritten, prev, fetchres, builds, mode >>
queryvars == << qi, sgp, pos, group_data, features, files >>
classvars == << calt, cres >>

Programs == { "group_files", "geojson", "lib" }
NoEntry == [ keys |-> {}, nonnum |-> {}, rejected |-> FALSE, norad |-> 0,
             name |-> << >> ]

InitMain ==
    /\ prog \in Programs
    /\ pc = "start"
    /\ builds = 0
    /\ mode = "init"
    /\ gi = 0
    /\ reqs = 0
    /\ okseen = 0
    /\ src = 0
    /\ data = 0
    /\ ri = 0
    /\ entry = NoEntry
    /\ sats = << >>
    /\ order = << >>
    /\ want = {}
    /\ rewritten = {}
    /\ prev = << >>
    /\ fetchres = << >>
    /\ qi = 0
    /\ sgp = NoCall
    /\ pos = NoPos
    /\ group_data = << >>
    /\ features = << >>
    /\ files = << >>
    /\ raised = NoException

Init == InitMain /\ calt = NoAlt /\ cres = ""

(***************************************************************************)
(* What the feed delivered, judged independently of how the loader reads   *)
(* it: an acceptable response, a valid record.                             *)
(***************************************************************************)
Acceptable(resp) ==
    ~resp.exc /\ resp.status = 200 /\ resp.json = "list" /\ resp.len >= 1

Valid(e) == RequiredFields \subseteq e.keys /\ e.nonnum = {} /\ ~e.rejected

(***************************************************************************)
(* LiveSatelliteEngine.__init__ and load_all_groups                        *)
(***************************************************************************)
BeginLoad(m, s) ==
    /\ sats' = s
    /\ order' = SelectSeq(order, LAMBDA i : i \in DOMAIN s)
    /\ prev' = s
    /\ builds' = builds + 1
    /\ mode' = m
    /\ gi' = 1
    /\ reqs' = 0
    /\ okseen' = 0
    /\ src' = 0
    /\ data' = 0
    /\ ri' = 0
    /\ entry' = NoEntry
    /\ want' = {}
    /\ rewritten' = {}
    /\ fetchres' = << >>
    /\ sgp' = NoCall
    /\ pos' = NoPos
    /\ pc' = "fetch"
    /\ UNCHANGED << prog, qi, group_data, features, files, raised, classvars >>

\* __init__ (lines 46-48): a program's first statement, or a library user
\* constructing another engine
EngineInit ==
    /\ \/ pc = "start"
       \/ pc = "ready" /\ prog = "lib" /\ builds < MaxBuilds
    /\ BeginLoad("init", CatalogAtInit(sats))

\* a library user calling load_all_groups on the engine it holds
Reload ==
    /\ pc = "ready" /\ prog = "lib" /\ builds < MaxBuilds
    /\ BeginLoad("reload", sats)

\* one pass of the loop of fetch_group (lines 55-68), and lines 70-71 after
\* the last one
FetchAttempt ==
    /\ pc = "fetch"
    /\ \E resp \in Responses :
         /\ reqs' = reqs + 1
         /\ okseen' = okseen + (IF Acceptable(resp) THEN 1 ELSE 0)
         /\ IF AttemptOk(resp)
              THEN data' = resp.len /\ src' = reqs + 1 /\ pc' = "fetched"
              ELSE IF reqs + 1 >= Retries
                     THEN data' = 0 /\ src' = 0 /\ pc' = "fetched"
                     ELSE data' = 0 /\ src' = 0 /\ pc' = "fetch"
    /\ UNCHANGED << prog, builds, mode, gi, ri, entry, sats, order, want,
                    rewritten, prev, fetchres, queryvars, raised,
                    classvars >>

NextGroup(g) ==
    /\ gi' = g
    /\ pc' = IF g > Groups THEN "ready" ELSE "fetch"

\* lines 77-82: data = self.fetch_group(group); an empty result is skipped
LoadGroup ==
    /\ pc = "fetched"
    /\ fetchres' = Append(fetchres, IF data = 0 THEN "failed" ELSE "ok")
    /\ reqs' = 0 /\ okseen' = 0 /\ src' = 0
    /\ IF data = 0
         THEN ri' = 0 /\ NextGroup(ContinueTarget(gi))
         ELSE ri' = 1 /\ gi' = gi /\ pc' = "record"
    /\ UNCHANGED << prog, builds, mode, data, entry, sats, order, want,
                    rewritten, prev, queryvars, raised, classvars >>

\* line 84: for entry in data
ReadRecord ==
    /\ pc = "record"
    /\ \E e \in RawRecords : entry' = e
    /\ pc' = "process"
    /\ UNCHANGED << prog, builds, mode, gi, reqs, okseen, src, data, ri, sats,
                    order, want, rewritten, prev, fetchres, queryvars,
                    raised, classvars >>

\* lines 85-124 for the record read, and line 126 after the last one
ProcessRecord ==
    /\ pc = "process"
    /\ LET out == RecordOutcome(entry)
       IN  /\ want' = IF Valid(entry) THEN want \cup { entry.norad } ELSE want
           /\ IF out = "store"
                THEN /\ sats' = StoreEntry(sats, entry.norad,
                                   CatalogEntry(entry, CELESTRAK_GROUPS[gi]))
                     /\ order' = StoreOrder(order, sats, entry.norad)
                     /\ rewritten' = IF entry.norad \in want
                                       THEN rewritten \cup { entry.norad }
                                       ELSE rewritten
                ELSE UNCHANGED << sats, order, rewritten >>
           /\ IF out = "raise_norad" \/ out = "raise_name"
                THEN /\ raised' = KeyError(IF out = "raise_norad"
                                             THEN "NORAD_CAT_ID"
                                             ELSE "OBJECT_NAME")
                     /\ pc' = "aborted"
                     /\ UNCHANGED << gi, ri, data, entry >>
                ELSE /\ raised' = raised
                     /\ entry' = NoEntry
                     /\ IF ri = data
                          THEN ri' = 0 /\ data' = 0 /\ NextGroup(gi + 1)
                          ELSE ri' = ri + 1 /\ data' = data
                               /\ gi' = gi /\ pc' = "record"
    /\ UNCHANGED << prog, builds, mode, reqs, okseen, src, prev, fetchres,
                    queryvars, classvars >>

\* a library user asking for the position of any identifier at any instant
PositionQuery ==
    /\ pc = "ready" /\ prog = "lib"
    /\ \E norad \in Ids \cup { UnknownId }, out \in PropOutputs :
         /\ sgp' = IF norad \in DOMAIN sats THEN out ELSE NoCall
         /\ pos' = compute_position(sats, norad, out)
    /\ UNCHANGED << prog, pc, loadvars, qi, group_data, features, files,
                    raised, classvars >>

(***************************************************************************)
(* generate_group_files                                                    *)
(***************************************************************************)
Coordinates(p) ==
    { safe_num(p["lon"]), safe_num(p["lat"]), safe_num(p["alt_km"]) }

\* lines 53-59
GroupStart ==
    /\ pc = "ready" /\ prog = "group_files"
    /\ group_data' = [ g \in DOMAIN GROUP_MAP |-> << >> ]
    /\ qi' = 1
    /\ pc' = "group_loop"
    /\ UNCHANGED << prog, loadvars, sgp, pos, features, files, raised,
                    classvars >>

\* lines 61-70 for one satellite
GroupEval ==
    /\ pc = "group_loop" /\ qi <= Len(order)
    /\ \E out \in PropOutputs :
         /\ sgp' = out
         /\ pos' = compute_position(sats, order[qi], out)
         /\ IF pos' = NoPos
              THEN qi' = qi + 1 /\ pc' = "group_loop"
              ELSE IF None \in Coordinates(pos')
                     THEN qi' = qi + 1 /\ pc' = "group_loop"
                     ELSE qi' = qi /\ pc' = "group_feature"
    /\ UNCHANGED << prog, loadvars, group_data, features, files, raised,
                    classvars >>

\* lines 72-132 for one satellite
GroupFeatures ==
    /\ pc = "group_feature"
    /\ LET norad == order[qi]
           matching == { g \in DOMAIN GROUP_MAP : Matches(g, sats[norad].name) }
           missing == FirstMissing(GroupKeysRead, pos)
       IN  IF matching # {} /\ missing # None
             THEN /\ raised' = KeyError(missing)
                  /\ pc' = "aborted"
                  /\ UNCHANGED << group_data, qi >>
             ELSE /\ group_data' =
                       [ g \in DOMAIN GROUP_MAP |->
                           IF g \in matching
                             THEN Append(group_data[g],
                                         GroupFeature(norad, sats[norad], pos))
                             ELSE group_data[g] ]
                  /\ qi' = qi + 1
                  /\ pc' = "group_loop"
                  /\ raised' = raised
    /\ UNCHANGED << prog, loadvars, sgp, pos, features, files, classvars >>

\* lines 135-140
GroupWrite ==
    /\ pc = "group_loop" /\ qi > Len(order)
    /\ files' = group_data
    /\ pc' = "done"
    /\ UNCHANGED << prog, loadvars, qi, sgp, pos, group_data, features,
                    raised, classvars >>

(***************************************************************************)
(* build_geojson                                                           *)
(***************************************************************************)
\* lines 8-12
GeoStart ==
    /\ pc = "ready" /\ prog = "geojson"
    /\ features' = << >>
    /\ qi' = 1
    /\ pc' = "geo_loop"
    /\ UNCHANGED << prog, loadvars, sgp, pos, group_data, files, raised,
                    classvars >>

\* lines 14-17 for one satellite
GeoEval ==
    /\ pc = "geo_loop" /\ qi <= Len(order)
    /\ \E out \in PropOutputs :
         /\ sgp' = out
         /\ pos' = compute_position(sats, order[qi], out)
         /\ IF pos' = NoPos
              THEN qi' = qi + 1 /\ pc' = "geo_loop"
              ELSE qi' = qi /\ pc' = "geo_feature"
    /\ UNCHANGED << prog, loadvars, group_data, features, files, raised,
                    classvars >>

\* lines 19-32 for one satellite
GeoFeatures ==
    /\ pc = "geo_feature"
    /\ LET missing == FirstMissing(GeoKeysRead, pos)
       IN  IF missing # None
             THEN /\ raised' = KeyError(missing)
                  /\ pc' = "aborted"
                  /\ UNCHANGED << features, qi >>
             ELSE /\ features' = Append(features, GeoFeature(pos))
                  /\ qi' = qi + 1
                  /\ pc' = "geo_loop"
                  /\ raised' = raised
    /\ UNCHANGED << prog, loadvars, sgp, pos, group_data, files, classvars >>

\* lines 34-42
GeoWrite ==
    /\ pc = "geo_loop" /\ qi > Len(order)
    /\ files' = (OUTPUT :> features)
    /\ pc' = "done"
    /\ UNCHANGED << prog, loadvars, qi, sgp, pos, group_data, features,
                    raised, classvars >>

Load == FetchAttempt \/ LoadGroup \/ ReadRecord \/ ProcessRecord

\* a program that holds an engine, rebuilds its catalog and queries it
InitLib == Init /\ prog = "lib"
NextLib == EngineInit \/ Reload \/ Load \/ PositionQuery
SpecLib == InitLib /\ [][NextLib]_vars

\* generate_all_geojson.py run as a script
InitGroup == Init /\ prog = "group_files"
NextGroupFiles ==
    EngineInit \/ Load \/ GroupStart \/ GroupEval \/ GroupFeatures \/ GroupWrite
SpecGroup == InitGroup /\ [][NextGroupFiles]_vars

\* generate_geojson.py run as a script
InitGeo == Init /\ prog = "geojson"
NextGeo == EngineInit \/ Load \/ GeoStart \/ GeoEval \/ GeoFeatures \/ GeoWrite
SpecGeo == InitGeo /\ [][NextGeo]_vars

\* classify_orbit applied to one altitude
AltInputs ==
    { NoAlt } \cup { Km(k * 500) : k \in 0 .. 90 }
      \cup { Km(1500), Km(1999), Km(19999), Km(25000), Km(35786), Km(35800),
             Km(39999) }

InitClassify == InitMain /\ prog = "group_files" /\ calt \in AltInputs /\ cres = ""

Classify ==
    /\ cres = ""
    /\ cres' = classify_orbit(calt)
    /\ UNCHANGED << prog, pc, loadvars, queryvars, raised, calt >>

SpecClassify == InitClassify /\ [][Classify]_vars

(***************************************************************************)
(* Properties.                                                             *)
(***************************************************************************)
MalformedRecordErrors == { KeyError("NORAD_CAT_ID"), KeyError("OBJECT_NAME") }
Finite(x) == x # None /\ x # "nan" /\ x # "inf"
Count(seq, id) == Cardinality({ i \in DOMAIN seq : seq[i].norad_id = id })
Range(seq) == { seq[i] : i \in DOMAIN seq }
Emitted ==
    UNION { Range(group_data[g]) : g \in DOMAIN group_data }
      \cup Range(features)
      \cup UNION { Range(files[f]) : f \in DOMAIN files }

\* C1: generate_group_files never aborts once the feed records carry their
\* identifier and name, and on completion it has written one collection for
\* every label of GROUP_MAP, whatever was fetched and whichever satellites
\* yielded a position.
C1_NeverAbortsWritesAllGroups ==
    /\ pc = "aborted" => raised \in MalformedRecordErrors
    /\ pc = "done" => DOMAIN files = DOMAIN GROUP_MAP

\* C2: handling a record that lacks a required field or carries a
\* non-numeric value in one creates no catalog entry and does not abort the
\* load.
C2_InvalidRecordSkipped ==
    [][(pc = "process" /\ ~Valid(entry)) => (sats' = sats /\ pc' # "aborted")]_vars

\* C3: a group whose fetch failed does not stop the load: when the engine is
\* constructed fetch_group has been called for every configured group, and
\* the catalog holds every valid record of the groups that were fetched,
\* whichever groups failed; a failed fetch itself changes no entry.
C3_FailedFetchDoesNotBlock ==
    /\ pc = "ready" => (Len(fetchres) = Groups /\ want \subseteq DOMAIN sats)
    /\ pc \in { "fetch", "fetched" } => Len(fetchres) = gi - 1

C3_Witness ==
    /\ pc = "ready"
    /\ Len(fetchres) >= 2
    /\ fetchres[1] = "failed"
    /\ fetchres[2] = "ok"
    /\ want # {}
    /\ want \subseteq DOMAIN sats

\* C4: one call of fetch_group issues at most Retries requests; while it is
\* still asking no acceptable response has arrived; it returns a payload
\* exactly when the request issued last was the first acceptable one, and
\* the empty result exactly after Retries requests none of which was
\* acceptable.
C4_FetchBounded ==
    /\ reqs <= Retries
    /\ pc = "fetch" => (okseen = 0 /\ reqs < Retries)
    /\ pc = "fetched" =>
         IF data > 0 THEN okseen = 1 /\ src = reqs
                     ELSE okseen = 0 /\ reqs = Retries /\ src = 0

C4_Witness == pc = "fetched" /\ data > 0 /\ reqs = 3 /\ src = 3

\* the classifier of the specification
SpecifiedClass(alt) ==
    IF ~alt.some THEN "Unknown"
    ELSE IF alt.km < 2000 THEN "LEO"
    ELSE IF alt.km >= 35700 /\ alt.km <= 36000 THEN "GEO"
    ELSE IF alt.km < 35786 THEN "MEO"
    ELSE "HEO"

\* C5: classify_orbit gives the class of the specified classifier for every
\* altitude (LEO below 2000, GEO in the band 35700..36000, MEO from 2000 up
\* to 35786 outside the band, HEO otherwise, Unknown for None).
C5_ClassifiesAsSpecified == cres # "" => cres = SpecifiedClass(calt)

\* C6: compute_position returns a position exactly when the propagator's
\* status code is zero; while generate_group_files evaluates a satellite
\* whose propagation fails, no position is returned, no feature is added to
\* any group, nothing is raised and the loop goes on with the next satellite.
C6_FailedPropagationSkipped ==
    /\ [](pos # NoPos <=> sgp.e = 0)
    /\ [][(pc = "group_loop" /\ qi <= Len(order) /\ sgp'.e # 0) =>
            /\ pos' = NoPos
            /\ group_data' = group_data
            /\ raised' = raised
            /\ qi' = qi + 1
            /\ pc' = "group_loop"]_vars

C6_Witness ==
    /\ pc = "done"
    /\ Len(order) = 2
    /\ sgp.e = 6
    /\ pos = NoPos
    /\ DOMAIN files = DOMAIN GROUP_MAP

C8_EntryNeverReplaced ==
    [][\A id \in DOMAIN sats : id \in DOMAIN sats' /\ sats'[id] = sats[id]]_vars

\* C8 as amended: every valid record that is handled stores the entry of its
\* identifier, with its own name and metadata and the group being loaded,
\* whether or not the identifier already has an entry; no other step of the
\* build changes the catalog.  An entry is that of the last valid record
\* with its identifier.
C8_LastRecordWins ==
    [][IF pc = "process" /\ Valid(entry)
         THEN sats' = Put(sats, entry.norad,
                          [ name |-> entry.name,
                            group |-> CELESTRAK_GROUPS[gi],
                            satrec |-> entry.norad, meta |-> entry ])
         ELSE sats' = sats]_vars

C8_Witness ==
    /\ pc = "ready"
    /\ fetchres = << "ok", "ok" >>
    /\ \E id \in rewritten :
         sats[id].group = CELESTRAK_GROUPS[2] /\ sats[id].name = << "X" >>

\* C9 as stated: after load_all_groups has run again on a populated engine
\* the catalog holds exactly the entries built during that run.
C9_ReloadReplaces ==
    (pc = "ready" /\ mode = "reload") => DOMAIN sats = want

\* C9 as amended: a build started by __init__ ends with exactly the entries
\* built during it; load_all_groups run again on a populated engine ends
\* with those entries and, unchanged, every entry the catalog held before
\* whose identifier was not rebuilt.
C9_InitReplacesReloadKeeps ==
    pc = "ready" =>
      IF mode = "init"
        THEN DOMAIN sats = want
        ELSE /\ DOMAIN sats = DOMAIN prev \cup want
             /\ \A id \in DOMAIN prev \ want : sats[id] = prev[id]

C9_Witness ==
    /\ pc = "ready"
    /\ mode = "reload"
    /\ prev # << >>
    /\ want = {}
    /\ sats = prev

\* C10: once generate_group_files is through with a satellite that has a
\* valid position, the satellite has exactly one feature in every group whose
\* keyword is a case-insensitive substring of its name and none in any other.
C10_PlacedInMatchingGroups ==
    (/\ pc \in { "group_loop", "done", "aborted" }
     /\ pos # NoPos
     /\ None \notin Coordinates(pos)) =>
       \A g \in DOMAIN GROUP_MAP :
         Count(group_data[g], pos["norad_id"]) =
           (IF Contains(lower(GROUP_MAP[g]), lower(pos["name"])) THEN 1 ELSE 0)

TypeOK ==
    /\ pc \in { "start", "fetch", "fetched", "record", "process",
                "ready", "group_loop",
                "group_feature", "geo_loop", "geo_feature", "done", "aborted" }
    /\ DOMAIN sats \subseteq Ids
    /\ reqs \in 0 .. Retries

====
